---- MODULE Spec2Model ----
(***************************************************************************)
(* Model of miio/integrations/zimi/powerstrip/powerstrip.py: the property  *)
(* catalog (AVAILABLE_PROPERTIES), the status container (PowerStripStatus) *)
(* and the command methods of PowerStrip.  The transport (Device.send and  *)
(* Device.get_properties) is the environment: every call is logged and     *)
(* either answers or raises.                                               *)
(***************************************************************************)
EXTENDS Integers, Sequences, FiniteSets, TLC

VARIABLES model, reply, log, history, snap, lastRead

vars == <<model, reply, log, history, snap, lastRead>>

(* Number of public operations invoked in one behaviour. *)
MaxCalls == 2

(***************************************************************************)
(* Python values.  Every value is a record of the same shape so that any   *)
(* two values can be compared: tag is the Python type, s a string payload, *)
(* n an integer payload, c the hundredths of a float (n.c).                *)
(***************************************************************************)
None == [tag |-> "NoneType", s |-> "", n |-> 0, c |-> 0]

PyStr(x) == [tag |-> "str", s |-> x, n |-> 0, c |-> 0]

PyInt(x) == [tag |-> "int", s |-> "", n |-> x, c |-> 0]

PyBool(b) == [tag |-> "bool", s |-> "", n |-> IF b THEN 1 ELSE 0, c |-> 0]

PyFloat(whole, hundredths) == [tag |-> "float", s |-> "", n |-> whole, c |-> hundredths]

Member(class, name) == [tag |-> class, s |-> name, n |-> 0, c |-> 0]

Raise(exc) == [tag |-> "raise", s |-> exc, n |-> 0, c |-> 0]

IsRaise(v) == v.tag = "raise"

(* Python truth value of an argument tested by `if x:`. *)
Truthy(v) ==
    CASE v.tag = "bool" -> v.n = 1
      [] v.tag = "int" -> v.n # 0
      [] v.tag = "str" -> v.s # ""
      [] v.tag = "NoneType" -> FALSE
      [] OTHER -> TRUE

(***************************************************************************)
(* Property catalog.                                                       *)
(***************************************************************************)
MODEL_POWER_STRIP_V1 == "qmi.powerstrip.v1"

MODEL_POWER_STRIP_V2 == "zimi.powerstrip.v2"

AVAILABLE_PROPERTIES ==
    [m \in {MODEL_POWER_STRIP_V1, MODEL_POWER_STRIP_V2} |->
        IF m = MODEL_POWER_STRIP_V1
        THEN <<"power", "temperature", "current", "mode",
               "power_consume_rate", "voltage", "power_factor", "elec_leakage">>
        ELSE <<"power", "temperature", "current", "mode",
               "power_consume_rate", "wifi_led", "power_price">>]

(* dict.get(key, default) on the catalog. *)
PropertiesFor(m) ==
    IF m \in DOMAIN AVAILABLE_PROPERTIES
    THEN AVAILABLE_PROPERTIES[m]
    ELSE AVAILABLE_PROPERTIES[MODEL_POWER_STRIP_V1]

(***************************************************************************)
(* PowerMode enumeration.                                                  *)
(***************************************************************************)
Eco == Member("PowerMode", "Eco")

Normal == Member("PowerMode", "Normal")

(* Lenient parse: an unknown wire string reads as None. *)
PowerModeLenient(value) ==
    IF value = PyStr("green") THEN Eco
    ELSE IF value = PyStr("normal") THEN Normal
    ELSE None

(* PowerMode(value): lookup of a member by its value. *)
PowerMode(value) ==
    IF value = PyStr("green") THEN Eco
    ELSE IF value = PyStr("normal") THEN Normal
    ELSE Raise("ValueError")

(* An enumeration member of another integration: it is no PowerMode, yet it
   carries a `value` attribute like every enum member. *)
OperationModeAuto == Member("OperationMode", "Auto")

(* hasattr(obj, "value"). *)
HasValue(obj) == obj.tag \in {"PowerMode", "OperationMode"}

(* obj.value for an enumeration member. *)
ValueOf(obj) ==
    CASE obj = Eco -> PyStr("green")
      [] obj = Normal -> PyStr("normal")
      [] obj = OperationModeAuto -> PyStr("auto")
      [] OTHER -> Raise("AttributeError")

(***************************************************************************)
(* PowerStripStatus.  `self` is [data, dflt]: the mapping handed to the    *)
(* constructor and whether it is a defaultdict(lambda: None).  An accessor *)
(* yields [res, self]: its result (a value or a raised exception) and the  *)
(* container after the read, because indexing a defaultdict with a missing *)
(* key stores the default under that key.  Record constructors list their  *)
(* fields in the order the module first names them.                        *)
(***************************************************************************)
(* What a read gives: its result and the container after it. *)
Returned(res, self) == [res |-> res, self |-> self]

Put(d, k, v) == [x \in DOMAIN d \cup {k} |-> IF x = k THEN v ELSE d[x]]

(* self.data[key] *)
getitem(self, key) ==
    IF key \in DOMAIN self.data
    THEN Returned(self.data[key], self)
    ELSE IF self.dflt
         THEN Returned(None, [self EXCEPT !.data = Put(self.data, key, None)])
         ELSE Returned(Raise("KeyError"), self)

(* key in self.data *)
contains(self, key) == key \in DOMAIN self.data

(* `return self.data[key]` when `self.data[key] is not None`, else None. *)
IfNotNone(self, key) ==
    LET g == getitem(self, key) IN
    IF IsRaise(g.res) THEN g
    ELSE IF g.res # None THEN getitem(g.self, key)
    ELSE [res |-> None, self |-> g.self]

(* Floor division x // 100 in place of the true division. *)
Div100Floor(x) ==
    IF x.tag = "int" THEN PyFloat(x.n \div 100, 0)
    ELSE IF x.tag = "float" THEN PyFloat(x.n \div 100, 0)
    ELSE Raise("TypeError")

(* x / 100.0 for an integer x >= 0: the float with whole part x div 100 and
   hundredths x mod 100 (a float operand is cut to hundredths); a TypeError
   for a value that is no number. *)
Div100(x) ==
    IF x.tag = "int" THEN PyFloat(x.n \div 100, x.n % 100)
    ELSE IF x.tag = "float" THEN PyFloat(x.n \div 100, x.n % 100)
    ELSE Raise("TypeError")

power(self) == getitem(self, "power")

is_on(self) ==
    LET p == power(self) IN
    IF IsRaise(p.res) THEN p
    ELSE [res |-> PyBool(p.res = PyStr("on")), self |-> p.self]

temperature(self) == getitem(self, "temperature")

current(self) == IfNotNone(self, "current")

load_power(self) == IfNotNone(self, "power_consume_rate")

mode(self) ==
    LET g == getitem(self, "mode") IN
    IF IsRaise(g.res) THEN g
    ELSE IF g.res # None
         THEN [res |-> PowerMode(getitem(g.self, "mode").res), self |-> g.self]
         ELSE [res |-> None, self |-> g.self]

(* led that compares the raw value with "on" without the None test. *)
led_no_none_test(self) ==
    IF contains(self, "wifi_led")
    THEN [res |-> PyBool(self.data["wifi_led"] = PyStr("on")), self |-> self]
    ELSE [res |-> None, self |-> self]

led(self) ==
    IF contains(self, "wifi_led") /\ self.data["wifi_led"] # None
    THEN [res |-> PyBool(self.data["wifi_led"] = PyStr("on")), self |-> self]
    ELSE [res |-> None, self |-> self]

wifi_led(self) == led(self)

power_price(self) ==
    IF contains(self, "power_price") /\ self.data["power_price"] # None
    THEN [res |-> self.data["power_price"], self |-> self]
    ELSE [res |-> None, self |-> self]

leakage_current(self) ==
    IF contains(self, "elec_leakage") /\ self.data["elec_leakage"] # None
    THEN [res |-> self.data["elec_leakage"], self |-> self]
    ELSE [res |-> None, self |-> self]

(* voltage that converts whatever self.data["voltage"] holds, unguarded. *)
voltage_unguarded(self) ==
    LET g == getitem(self, "voltage") IN
    IF IsRaise(g.res) THEN g ELSE [res |-> Div100(g.res), self |-> g.self]

(* voltage that stores the converted value back into the mapping. *)
voltage_in_place(self) ==
    IF contains(self, "voltage") /\ self.data["voltage"] # None
    THEN LET v == Div100(self.data["voltage"]) IN
         [res |-> v, self |-> [self EXCEPT !.data = Put(self.data, "voltage", v)]]
    ELSE [res |-> None, self |-> self]

voltage(self) ==
    IF contains(self, "voltage") /\ self.data["voltage"] # None
    THEN [res |-> Div100(self.data["voltage"]), self |-> self]
    ELSE [res |-> None, self |-> self]

power_factor(self) ==
    IF contains(self, "power_factor") /\ self.data["power_factor"] # None
    THEN [res |-> self.data["power_factor"], self |-> self]
    ELSE [res |-> None, self |-> self]

Accessors ==
    {"power", "is_on", "temperature", "current", "load_power", "mode", "wifi_led",
     "led", "power_price", "leakage_current", "voltage", "power_factor"}

(* getattr(status, a) for a property a of PowerStripStatus. *)
Access(a, self) ==
    CASE a = "power" -> power(self)
      [] a = "is_on" -> is_on(self)
      [] a = "temperature" -> temperature(self)
      [] a = "current" -> current(self)
      [] a = "load_power" -> load_power(self)
      [] a = "mode" -> mode(self)
      [] a = "wifi_led" -> wifi_led(self)
      [] a = "led" -> led(self)
      [] a = "power_price" -> power_price(self)
      [] a = "leakage_current" -> leakage_current(self)
      [] a = "voltage" -> voltage(self)
      [] a = "power_factor" -> power_factor(self)

(***************************************************************************)
(* Transport and command methods of PowerStrip.  t is what the transport   *)
(* does with a call: "ok" or the name of the exception it raises.  A       *)
(* method yields [issued, result]: the transport calls it made and what    *)
(* the caller gets (a value or a raised exception).                        *)
(***************************************************************************)
TransportOutcomes == {"ok", "DeviceException"}

(* The response of the device to a command, opaque to the driver. *)
Response == Member("list", "ok")

(* The PowerStripStatus object returned by status(). *)
StatusObject == Member("PowerStripStatus", "")

SendCall(name, args) == [kind |-> "send", method |-> name, params |-> args]

GetPropertiesCall(properties) ==
    [kind |-> "get_properties", method |-> "get_prop",
     params |-> [i \in DOMAIN properties |-> PyStr(properties[i])]]

(* self.send(method, params) *)
send(name, args, t) ==
    [issued |-> <<SendCall(name, args)>>,
     result |-> IF t = "ok" THEN Response ELSE Raise(t)]

Rejected(exc) == [issued |-> <<>>, result |-> Raise(exc)]

on(t) == send("set_power", <<PyStr("on")>>, t)

off(t) == send("set_power", <<PyStr("off")>>, t)

set_power(power_arg, t) == IF Truthy(power_arg) THEN on(t) ELSE off(t)

set_power_mode(mode_arg, t) ==
    IF HasValue(mode_arg)
    THEN send("set_power_mode", <<ValueOf(mode_arg)>>, t)
    ELSE Rejected("AttributeError")

(* set_led that sends the command again when the transport raises. *)
set_led_retry(led_arg, t) ==
    LET m == IF Truthy(led_arg) THEN "on" ELSE "off"
        r == send("set_wifi_led", <<PyStr(m)>>, t)
    IN  IF IsRaise(r.result) THEN [issued |-> r.issued \o r.issued, result |-> r.result]
        ELSE r

set_led(led_arg, t) ==
    IF Truthy(led_arg)
    THEN send("set_wifi_led", <<PyStr("on")>>, t)
    ELSE send("set_wifi_led", <<PyStr("off")>>, t)

(* The body calls set_led and has no return statement. *)
set_wifi_led(led_arg, t) ==
    LET r == set_led(led_arg, t) IN
    [issued |-> r.issued, result |-> IF IsRaise(r.result) THEN r.result ELSE None]

(* set_power_price whose upper test is `price >= 999`. *)
set_power_price_off_by_one(price, t) ==
    IF price.n < 0 \/ price.n >= 999
    THEN Rejected("ValueError")
    ELSE send("set_power_price", <<price>>, t)

set_power_price(price, t) ==
    IF price.n < 0 \/ price.n > 999
    THEN Rejected("ValueError")
    ELSE send("set_power_price", <<price>>, t)

set_realtime_power(power_arg, t) ==
    IF Truthy(power_arg)
    THEN send("set_rt_power", <<PyInt(1)>>, t)
    ELSE send("set_rt_power", <<PyInt(0)>>, t)

Min(a, b) == IF a <= b THEN a ELSE b

(* The largest index of a non-empty set of indices. *)
Last(S) == CHOOSE i \in S : \A j \in S : j <= i

(* dict(zip(names, values)): pairs by position up to the shorter length; a
   repeated name keeps its last value. *)
Zip(names, values) ==
    LET n == Min(Len(names), Len(values)) IN
    [k \in {names[i] : i \in 1..n} |-> values[Last({i \in 1..n : names[i] = k})]]

(* status that asks an unknown model for the V2 list. *)
status_default_v2(t) ==
    LET properties == IF model \in DOMAIN AVAILABLE_PROPERTIES
                      THEN AVAILABLE_PROPERTIES[model]
                      ELSE AVAILABLE_PROPERTIES[MODEL_POWER_STRIP_V2]
    IN  [data |-> Zip(properties, reply),
         issued |-> <<GetPropertiesCall(properties)>>,
         result |-> IF t = "ok" THEN StatusObject ELSE Raise(t)]

(* status(): the property list of the connected model, one get_properties
   call, and a defaultdict(lambda: None, zip(properties, values)). *)
status(t) ==
    LET properties == PropertiesFor(model) IN
    [data |-> Zip(properties, reply),
     issued |-> <<GetPropertiesCall(properties)>>,
     result |-> IF t = "ok" THEN StatusObject ELSE Raise(t)]

(***************************************************************************)
(* Inputs.                                                                 *)
(***************************************************************************)
(* Connected models: the two supported ones and one the catalog lacks. *)
Models == {MODEL_POWER_STRIP_V1, MODEL_POWER_STRIP_V2, "chuangmi.plug.v3"}

(* Raw values a device reports for a property; None is a null. *)
RawDomain(name) ==
    CASE name = "power" -> {PyStr("on"), PyStr("off")}
      [] name = "temperature" -> {PyFloat(48, 70)}
      [] name = "current" -> {PyFloat(0, 5)}
      [] name = "mode" -> {None, PyStr("green"), PyStr("normal"), PyStr("turbo")}
      [] name = "power_consume_rate" -> {PyFloat(4, 9)}
      [] name = "voltage" -> {None, PyInt(22050)}
      [] name = "power_factor" -> {None, PyInt(12)}
      [] name = "elec_leakage" -> {None, PyInt(0)}
      [] name = "wifi_led" -> {None, PyStr("on"), PyStr("off")}
      [] name = "power_price" -> {None, PyInt(49)}

RECURSIVE RepliesOfLen(_, _)
RepliesOfLen(names, n) ==
    IF n = 0 THEN {<<>>}
    ELSE {Append(r, v) : r \in RepliesOfLen(names, n - 1), v \in RawDomain(names[n])}

(* Replies of get_properties(names): one value per name, or fewer when the
   device answers short. *)
Replies(names) == UNION {RepliesOfLen(names, n) : n \in 0..Len(names)}

(* One full reply per property list: the documented V2 response and a V1
   response of the same shape. *)
ScenarioReply(names) ==
    IF names = AVAILABLE_PROPERTIES[MODEL_POWER_STRIP_V2]
    THEN <<PyStr("on"), PyFloat(48, 70), PyFloat(0, 5), None, PyFloat(4, 9),
           PyStr("on"), PyInt(49)>>
    ELSE <<PyStr("on"), PyFloat(48, 70), PyFloat(0, 5), PyStr("green"), PyFloat(4, 9),
           PyInt(22050), PyInt(12), PyInt(0)>>

BoolArgs == {PyBool(TRUE), PyBool(FALSE)}

(* Arguments of set_power_mode: the members, a wire string, and a member of
   another enumeration. *)
ModeArgs == {Eco, Normal, PyStr("green"), OperationModeAuto}

PriceArgs == {PyInt(-1), PyInt(0), PyInt(999), PyInt(1000)}

OptionalKeys == {"wifi_led", "power_price", "elec_leakage", "voltage", "power_factor"}

(***************************************************************************)
(* State machine.                                                          *)
(*   model    the model of the connected device (self.model)               *)
(*   reply    the raw status record the device answers get_properties with *)
(*   log      the transport calls issued so far, in order                  *)
(*   history  the public operations invoked so far, with their outcome     *)
(*   snap     the PowerStripStatus the caller holds: [built, dflt, data,   *)
(*            init], init being the mapping as constructed                 *)
(*   lastRead the last property read on snap and what it gave              *)
(***************************************************************************)
NoSnap == [data |-> <<>>, dflt |-> FALSE, built |-> FALSE, init |-> <<>>]

NoRead == [res |-> None, acc |-> "none"]

InitCommon ==
    /\ log = <<>>
    /\ history = <<>>
    /\ snap = NoSnap
    /\ lastRead = NoRead

Init ==
    /\ model \in Models
    /\ reply = ScenarioReply(PropertiesFor(model))
    /\ InitCommon

InitSnapshot ==
    /\ model \in Models
    /\ reply \in Replies(PropertiesFor(model))
    /\ InitCommon

(* The caller invokes a public operation; r is what the method did. *)
Invoke(op, arg, t, r) ==
    /\ Len(history) < MaxCalls
    /\ log' = log \o r.issued
    /\ history' = Append(history,
                         [issued |-> r.issued, result |-> r.result,
                          op |-> op, arg |-> arg,
                          transport |-> IF r.issued = <<>> THEN "none" ELSE t])

Command(op, arg, t, r) ==
    /\ Invoke(op, arg, t, r)
    /\ UNCHANGED <<model, reply, snap, lastRead>>

CallOn == \E t \in TransportOutcomes : Command("on", None, t, on(t))

CallOff == \E t \in TransportOutcomes : Command("off", None, t, off(t))

CallSetPower ==
    \E b \in BoolArgs, t \in TransportOutcomes : Command("set_power", b, t, set_power(b, t))

CallSetPowerMode ==
    \E m \in ModeArgs, t \in TransportOutcomes :
        Command("set_power_mode", m, t, set_power_mode(m, t))

CallSetWifiLed ==
    \E b \in BoolArgs, t \in TransportOutcomes :
        Command("set_wifi_led", b, t, set_wifi_led(b, t))

CallSetLed ==
    \E b \in BoolArgs, t \in TransportOutcomes : Command("set_led", b, t, set_led(b, t))

CallSetPowerPrice ==
    \E p \in PriceArgs, t \in TransportOutcomes :
        Command("set_power_price", p, t, set_power_price(p, t))

CallSetRealtimePower ==
    \E b \in BoolArgs, t \in TransportOutcomes :
        Command("set_realtime_power", b, t, set_realtime_power(b, t))

(* status(): on success the caller holds a fresh snapshot, on a transport
   error it gets the exception and keeps what it had. *)
CallStatus ==
    \E t \in TransportOutcomes :
        LET r == status(t) IN
        /\ Invoke("status", None, t, [issued |-> r.issued, result |-> r.result])
        /\ IF IsRaise(r.result)
           THEN UNCHANGED <<snap, lastRead>>
           ELSE /\ snap' = [data |-> r.data, dflt |-> TRUE, built |-> TRUE, init |-> r.data]
                /\ lastRead' = NoRead
        /\ UNCHANGED <<model, reply>>

(* PowerStripStatus(d) on a plain dict d: the pairs of the reply, all of
   them or all but one optional key. *)
Construct ==
    \E full \in {Zip(PropertiesFor(model), reply)} :
        \E drop \in {{}} \cup {{k} : k \in OptionalKeys \cap DOMAIN full} :
            /\ snap' = [data |-> [k \in DOMAIN full \ drop |-> full[k]],
                        dflt |-> FALSE, built |-> TRUE,
                        init |-> [k \in DOMAIN full \ drop |-> full[k]]]
            /\ lastRead' = NoRead
            /\ UNCHANGED <<model, reply, log, history>>

(* The caller reads property a of the snapshot it holds. *)
Read ==
    \E a \in Accessors :
        /\ snap.built
        /\ \E r \in {Access(a, snap)} :
               /\ snap' = r.self
               /\ lastRead' = [res |-> r.res, acc |-> a]
        /\ UNCHANGED <<model, reply, log, history>>

Next ==
    \/ CallOn
    \/ CallOff
    \/ CallSetPower
    \/ CallSetPowerMode
    \/ CallSetWifiLed
    \/ CallSetLed
    \/ CallSetPowerPrice
    \/ CallSetRealtimePower
    \/ CallStatus

Spec == Init /\ [][Next]_vars

NextSnapshot ==
    \/ CallStatus
    \/ Construct
    \/ Read

SpecSnapshot == InitSnapshot /\ [][NextSnapshot]_vars

(***************************************************************************)
(* Vocabulary of the properties.                                           *)
(***************************************************************************)
Entries == {history[i] : i \in DOMAIN history}

RECURSIVE IssuedBy(_)
(* The transport calls of a sequence of invocations, in invocation order. *)
IssuedBy(h) == IF h = <<>> THEN <<>> ELSE h[1].issued \o IssuedBy(Tail(h))

IsSend(call) == call.kind = "send"

(* The snapshot the caller holds came from status(). *)
FromStatus == snap.built /\ snap.dflt

(* The reply has one value per requested property. *)
Aligned == Len(reply) = Len(PropertiesFor(model))

(* The key of the mapping an accessor reads. *)
KeyOf(a) ==
    CASE a \in {"power", "is_on"} -> "power"
      [] a = "load_power" -> "power_consume_rate"
      [] a \in {"led", "wifi_led"} -> "wifi_led"
      [] a = "leakage_current" -> "elec_leakage"
      [] OTHER -> a

(* The raw value the device supplied for a property of the requested list:
   the value at the position of the name in the list. *)
Raw(name) ==
    LET names == PropertiesFor(model) IN
    reply[CHOOSE i \in DOMAIN names : names[i] = name]

Supplied(name) ==
    \E i \in DOMAIN PropertiesFor(model) : PropertiesFor(model)[i] = name /\ i <= Len(reply)

(* C1: set_power_price(price) sends ("set_power_price", [price]) exactly once
   for 0 <= price <= 999 and otherwise fails with ValueError without any
   transport call, so that the log holds nothing for a rejected price. *)
C1_PriceValidated ==
    /\ \A e \in Entries :
          e.op = "set_power_price" =>
              IF 0 <= e.arg.n /\ e.arg.n <= 999
              THEN e.issued = <<SendCall("set_power_price", <<PyInt(e.arg.n)>>)>>
              ELSE e.issued = <<>> /\ e.result = Raise("ValueError")
    /\ log = IssuedBy(history)

C1_Witness ==
    /\ \E e \in Entries :
          e.op = "set_power_price" /\ e.arg = PyInt(999) /\ Len(e.issued) = 1
    /\ \E e \in Entries :
          e.op = "set_power_price" /\ e.arg = PyInt(1000) /\ e.result = Raise("ValueError")

(* The send the command table gives for an invocation; none for a rejected
   argument and for status(). *)
TableSends(e) ==
    CASE e.op = "on" -> <<SendCall("set_power", <<PyStr("on")>>)>>
      [] e.op = "off" -> <<SendCall("set_power", <<PyStr("off")>>)>>
      [] e.op = "set_power" ->
            <<SendCall("set_power", <<PyStr(IF e.arg = PyBool(TRUE) THEN "on" ELSE "off")>>)>>
      [] e.op \in {"set_led", "set_wifi_led"} ->
            <<SendCall("set_wifi_led", <<PyStr(IF e.arg = PyBool(TRUE) THEN "on" ELSE "off")>>)>>
      [] e.op = "set_realtime_power" ->
            <<SendCall("set_rt_power", <<PyInt(IF e.arg = PyBool(TRUE) THEN 1 ELSE 0)>>)>>
      [] e.op = "set_power_mode" ->
            IF e.arg = Eco THEN <<SendCall("set_power_mode", <<PyStr("green")>>)>>
            ELSE IF e.arg = Normal THEN <<SendCall("set_power_mode", <<PyStr("normal")>>)>>
            ELSE <<>>
      [] e.op = "set_power_price" ->
            IF 0 <= e.arg.n /\ e.arg.n <= 999
            THEN <<SendCall("set_power_price", <<e.arg>>)>>
            ELSE <<>>
      [] OTHER -> <<>>

RECURSIVE TableLog(_)
TableLog(h) == IF h = <<>> THEN <<>> ELSE TableSends(h[1]) \o TableLog(Tail(h))

(* C2: the sends of the transport log are exactly those of the command table,
   one per accepted invocation, in invocation order; a set_power_mode argument
   that is no PowerMode member is rejected without a transport call. *)
C2_CommandTable ==
    /\ SelectSeq(log, IsSend) = TableLog(history)
    /\ \A e \in Entries :
          (e.op = "set_power_mode" /\ e.arg \notin {Eco, Normal}) =>
              IsRaise(e.result) /\ e.issued = <<>>

(* C3: the catalog lists of the known models are non-empty and free of
   duplicates, an unknown model gets the V1 list, and status() issues exactly
   one get_properties call carrying the list of the connected model in table
   order, and no send. *)
C3_StatusProperties ==
    /\ \A m \in DOMAIN AVAILABLE_PROPERTIES :
          /\ Len(AVAILABLE_PROPERTIES[m]) > 0
          /\ \A i, j \in DOMAIN AVAILABLE_PROPERTIES[m] :
                AVAILABLE_PROPERTIES[m][i] = AVAILABLE_PROPERTIES[m][j] => i = j
    /\ DOMAIN AVAILABLE_PROPERTIES = {"qmi.powerstrip.v1", "zimi.powerstrip.v2"}
    /\ \A m \in Models \ DOMAIN AVAILABLE_PROPERTIES :
          PropertiesFor(m) = AVAILABLE_PROPERTIES["qmi.powerstrip.v1"]
    /\ \A e \in Entries :
          e.op = "status" =>
              e.issued = <<GetPropertiesCall(
                              IF model = "zimi.powerstrip.v2"
                              THEN AVAILABLE_PROPERTIES["zimi.powerstrip.v2"]
                              ELSE AVAILABLE_PROPERTIES["qmi.powerstrip.v1"])>>

C3_Witness ==
    /\ model \notin DOMAIN AVAILABLE_PROPERTIES
    /\ \E e \in Entries : e.op = "status" /\ e.result = StatusObject

(* C4: an optional-field accessor returns None when its key is missing from
   the mapping, None when the key holds None, and a value other than None in
   every other case (0 and "off" included); it never raises. *)
C4_OptionalAbsent ==
    \A a \in {"led", "power_price", "leakage_current", "voltage", "power_factor"} :
        (snap.built /\ lastRead.acc = a) =>
            IF KeyOf(a) \notin DOMAIN snap.data
            THEN lastRead.res = None
            ELSE IF snap.data[KeyOf(a)] = None
                 THEN lastRead.res = None
                 ELSE lastRead.res # None /\ ~IsRaise(lastRead.res)

C4_Witness ==
    /\ snap.built
    /\ ~snap.dflt
    /\ lastRead.acc = "led"
    /\ "wifi_led" \in DOMAIN snap.data
    /\ snap.data["wifi_led"] = None
    /\ lastRead.res = None

(* What the documented V2 response reads as. *)
ScenarioExpected(a) ==
    CASE a = "power" -> PyStr("on")
      [] a = "is_on" -> PyBool(TRUE)
      [] a = "temperature" -> PyFloat(48, 70)
      [] a = "current" -> PyFloat(0, 5)
      [] a = "mode" -> None
      [] a = "load_power" -> PyFloat(4, 9)
      [] a \in {"led", "wifi_led"} -> PyBool(TRUE)
      [] a = "power_price" -> PyInt(49)
      [] a \in {"voltage", "leakage_current", "power_factor"} -> None

(* C5: on a snapshot of status() built from an aligned reply, a field whose
   property is not in the list of the model reads as None without raising;
   the documented V2 response reads as the scenario says. *)
C5_UnsupportedAbsent ==
    (FromStatus /\ Aligned /\ lastRead.acc # "none") =>
        /\ (~\E i \in DOMAIN PropertiesFor(model) :
                PropertiesFor(model)[i] = KeyOf(lastRead.acc))
              => lastRead.res = None
        /\ (model = "zimi.powerstrip.v2"
            /\ reply = <<PyStr("on"), PyFloat(48, 70), PyFloat(0, 5), None, PyFloat(4, 9),
                         PyStr("on"), PyInt(49)>>)
              => lastRead.res = ScenarioExpected(lastRead.acc)

C5_Witness ==
    /\ FromStatus
    /\ Aligned
    /\ model = "zimi.powerstrip.v2"
    /\ lastRead.acc = "voltage"
    /\ lastRead.res = None

(* C6: on a snapshot of status() of a known model built from an aligned
   reply every accessor reproduces the value supplied for its own property:
   is_on iff raw power is "on", the passthrough fields the raw value, voltage
   the raw value over 100, led iff raw wifi_led is "on", mode the member of the
   raw wire string and None for a null. *)
C6_RoundTrip ==
    (FromStatus /\ Aligned /\ model \in DOMAIN AVAILABLE_PROPERTIES
     /\ lastRead.acc # "none" /\ Supplied(KeyOf(lastRead.acc))) =>
        LET a == lastRead.acc
            res == lastRead.res
            raw == Raw(KeyOf(lastRead.acc))
        IN  CASE a = "is_on" -> res = PyBool(raw = PyStr("on"))
              [] a \in {"led", "wifi_led"} -> (res = PyBool(TRUE)) <=> (raw = PyStr("on"))
              [] a = "voltage" ->
                    IF raw = None THEN res = None
                    ELSE /\ res.tag = "float"
                         /\ res.c \in 0..99
                         /\ 100 * res.n + res.c = raw.n
              [] a = "mode" ->
                    /\ raw = PyStr("green") => res = Eco
                    /\ raw = PyStr("normal") => res = Normal
                    /\ raw = None => res = None
              [] OTHER -> res = raw

C6_Witness ==
    /\ FromStatus
    /\ Aligned
    /\ lastRead.acc = "voltage"
    /\ lastRead.res = PyFloat(220, 50)

C8_TransportErrors ==
    \A e \in Entries :
        /\ Len(e.issued) <= 1
        /\ e.transport \notin {"ok", "none"} =>
              /\ Len(e.issued) = 1
              /\ e.result = Raise(e.transport)
        /\ e.transport = "ok" => ~IsRaise(e.result)

C8_Witness ==
    /\ \E e \in Entries : e.op = "set_wifi_led" /\ e.result = Raise("DeviceException")
    /\ \E e \in Entries : e.op = "status" /\ e.result = Raise("DeviceException")

(* C9: wifi_led reads what led reads, and set_wifi_led(b) makes the transport
   call of set_led(b) and gives the caller the outcome of set_led(b), its
   response or its failure. *)
C9_AliasEquivalent ==
    /\ snap.built => wifi_led(snap).res = led(snap).res
    /\ \A e \in Entries :
          e.op = "set_wifi_led" =>
              /\ e.issued = set_led(e.arg, e.transport).issued
              /\ e.result = set_led(e.arg, e.transport).result

(* C10: on a snapshot of status() mode reads as None only for a null raw
   mode, raises ValueError for a raw string that is neither "green" nor
   "normal", and every other accessor of the snapshot returns normally. *)
C10_ModeParse ==
    FromStatus =>
        LET raw == IF "mode" \in DOMAIN snap.init THEN snap.init["mode"] ELSE None IN
        /\ lastRead.acc = "mode" =>
              /\ lastRead.res = None <=> raw = None
              /\ (raw.tag = "str" /\ raw \notin {PyStr("green"), PyStr("normal")})
                    => lastRead.res = Raise("ValueError")
              /\ raw \in {PyStr("green"), PyStr("normal")} => lastRead.res \in {Eco, Normal}
        /\ lastRead.acc \notin {"mode", "none"} => ~IsRaise(lastRead.res)

C10_Witness ==
    /\ FromStatus
    /\ lastRead.acc = "mode"
    /\ lastRead.res = Raise("ValueError")
    /\ \A a \in Accessors \ {"mode"} : ~IsRaise(Access(a, snap).res)

====
